---- MODULE Spec2Model ----
(***************************************************************************)
(* mdbook-files: the preprocessor that rewrites every fenced `files` block *)
(* of a book into a file-tree widget (src/src/lib.rs, src/src/main.rs).    *)
(*                                                                         *)
(* Paths are sequences of path components.  A String is known by its       *)
(* bytes (Bytes), so that the orders of BTreeMap<String, _> and of         *)
(* BTreeMap<Utf8PathBuf, _> are computed the way the code computes them.   *)
(***************************************************************************)
EXTENDS Integers, Sequences, FiniteSets, TLC

VARIABLES
    book,       \* the Book handed to Context::map (never written)
    stack,      \* the active map / map_chapter calls: [path, i] = next item
    mapped,     \* chapter path -> the events its new content is made of
    pc,         \* where the run stands
    chapter,    \* the chapter map_markdown is working on
    pos,        \* the parser's position in that chapter's events
    events,     \* map_markdown's `events`
    inst,       \* the Instance built by map_code: <<>> or <<[data, uuid]>>
    paths,      \* Instance::events' `paths` (a FilesMap)
    root,       \* Instance::left's `root` (a TreeNode)
    frag,       \* Instance::events' `events`
    visible,    \* Instance::events' `visible`: <<>> or <<uuid>>
    nextUuid,   \* the next value Uuid::new_v4 hands out
    error,      \* the message of the failure the run ended with
    stdout,     \* what Options::run wrote: <<>> or <<the mapped chapters>>
    trace       \* the chapters entered and the map_code calls, in order

vars == <<book, stack, mapped, pc, chapter, pos, events, inst, paths, root,
          frag, visible, nextUuid, error, stdout, trace>>

----------------------------------------------------------------------------
(* Bounds *)

\* max_depth ranges over None and 0..MaxDepthOpt
MaxDepthOpt == 1
\* TreeNode::insert on its own: paths of up to MaxPathLen components
MaxPathLen == 2
\* TreeNode::insert on its own: up to MaxInserts calls
MaxInserts == 3

----------------------------------------------------------------------------
(* Strings *)

\* The bytes of every name that occurs.
Bytes ==
    [n \in {"a.rs", "b", "c.rs", "d.txt", ".h", "s", "e.rs", "a", "a-b",
            "x.rs", "y.rs", "f.rs", "missing.rs", "x", "y", "w", "z", "book",
            "", "rs", "txt"} |->
        CASE n = "a.rs"       -> <<97, 46, 114, 115>>
          [] n = "b"          -> <<98>>
          [] n = "c.rs"       -> <<99, 46, 114, 115>>
          [] n = "d.txt"      -> <<100, 46, 116, 120, 116>>
          [] n = ".h"         -> <<46, 104>>
          [] n = "s"          -> <<115>>
          [] n = "e.rs"       -> <<101, 46, 114, 115>>
          [] n = "a"          -> <<97>>
          [] n = "a-b"        -> <<97, 45, 98>>
          [] n = "x.rs"       -> <<120, 46, 114, 115>>
          [] n = "y.rs"       -> <<121, 46, 114, 115>>
          [] n = "f.rs"       -> <<102, 46, 114, 115>>
          [] n = "missing.rs" -> <<109, 105, 115, 115, 105, 110, 103, 46, 114, 115>>
          [] n = "x"          -> <<120>>
          [] n = "y"          -> <<121>>
          [] n = "w"          -> <<119>>
          [] n = "z"          -> <<122>>
          [] n = "book"       -> <<98, 111, 111, 107>>
          [] n = ""           -> <<>>
          [] n = "rs"         -> <<114, 115>>
          [] n = "txt"        -> <<116, 120, 116>>]

\* the String made of the given bytes
StrOf(bs) == CHOOSE n \in DOMAIN Bytes : Bytes[n] = bs

Dot == 46

\* Ord for [u8]: lexicographic, a proper prefix first.
RECURSIVE BytesLess(_, _)
BytesLess(a, b) ==
    IF b = <<>> THEN FALSE
    ELSE IF a = <<>> THEN TRUE
    ELSE IF a[1] # b[1] THEN a[1] < b[1]
    ELSE BytesLess(Tail(a), Tail(b))

\* Ord for String
StrLess(a, b) == BytesLess(Bytes[a], Bytes[b])

\* Ord for Utf8PathBuf: component by component, a proper prefix first.
RECURSIVE PathLess(_, _)
PathLess(p, q) ==
    IF q = <<>> THEN FALSE
    ELSE IF p = <<>> THEN TRUE
    ELSE IF p[1] # q[1] THEN StrLess(p[1], q[1])
    ELSE PathLess(Tail(p), Tail(q))

\* The keys of a BTreeMap<String, _> in iteration order.
RECURSIVE SortedNames(_)
SortedNames(S) ==
    IF S = {} THEN <<>>
    ELSE LET m == CHOOSE x \in S : \A y \in S \ {x} : StrLess(x, y)
         IN  <<m>> \o SortedNames(S \ {m})

\* The keys of a BTreeMap<Utf8PathBuf, _> in iteration order.
RECURSIVE SortedPaths(_)
SortedPaths(S) ==
    IF S = {} THEN <<>>
    ELSE LET m == CHOOSE x \in S : \A y \in S \ {x} : PathLess(x, y)
         IN  <<m>> \o SortedPaths(S \ {m})

IsPrefix(p, q) == Len(p) <= Len(q) /\ SubSeq(q, 1, Len(p)) = p

\* Utf8Path::strip_prefix, for a path that starts with the prefix
StripPrefix(p, parent) == SubSeq(p, Len(parent) + 1, Len(p))

\* The index of the last '.' of a byte string, 0 when it has none.
LastDot(bs) ==
    LET D == {i \in 1..Len(bs) : bs[i] = Dot}
    IN  IF D = {} THEN 0 ELSE CHOOSE i \in D : \A j \in D : j <= i

\* Utf8Path::extension(..).unwrap_or("") of a file name: what follows the
\* last '.', nothing when there is no '.' or the name starts with its only '.'.
Extension(name) ==
    LET bs == Bytes[name]
        d  == LastDot(bs)
    IN  IF d <= 1 THEN "" ELSE StrOf(SubSeq(bs, d + 1, Len(bs)))

----------------------------------------------------------------------------
(* TreeNode *)

EmptyMap == [n \in {} |-> 0]

\* TreeNode::Directory(files)
Directory(files) == [kind |-> "Directory", files |-> files, uuid |-> 0]
\* TreeNode::File(uuid)
File(uuid) == [kind |-> "File", files |-> EmptyMap, uuid |-> uuid]
\* a panic raised inside TreeNode::insert
Panic(msg) == [kind |-> "Panic", files |-> EmptyMap, uuid |-> 0, msg |-> msg]

\* impl Default for TreeNode
TreeNodeDefault == Directory(EmptyMap)

\* BTreeMap::insert: the value at key k becomes v
MapPut(f, k, v) == [n \in DOMAIN f \cup {k} |-> IF n = k THEN v ELSE f[n]]

\* insert with BTreeMap::insert of a fresh Directory in place of
\* entry(..).or_default(): what the directory held is lost
RECURSIVE insertFresh(_, _, _)
insertFresh(self, path, uuid) ==
    IF self.kind = "Directory" /\ Len(path) = 1
    THEN Directory(MapPut(self.files, path[1], File(uuid)))
    ELSE IF self.kind = "Directory"
    THEN IF Len(path) = 0
         THEN Panic("index out of bounds")
         ELSE LET sub == insertFresh(TreeNodeDefault, Tail(path), uuid)
              IN  IF sub.kind = "Panic" THEN sub
                  ELSE Directory(MapPut(self.files, path[1], sub))
    ELSE Panic("entry exists")

\* TreeNode::insert; the result is the node afterwards, or the panic
RECURSIVE insert(_, _, _)
insert(self, path, uuid) ==
    IF self.kind = "Directory" /\ Len(path) = 1
    THEN Directory(MapPut(self.files, path[1], File(uuid)))
    ELSE IF self.kind = "Directory"
    THEN IF Len(path) = 0
         THEN Panic("index out of bounds")
         ELSE LET child == IF path[1] \in DOMAIN self.files
                           THEN self.files[path[1]]
                           ELSE TreeNodeDefault
                  sub   == insert(child, Tail(path), uuid)
              IN  IF sub.kind = "Panic" THEN sub
                  ELSE Directory(MapPut(self.files, path[1], sub))
    ELSE Panic("entry exists")

\* one piece of the markup that render and Instance write: an element's
\* opening or closing tag with the values formatted into it
Tok(tag, id, name, uuids) == [tag |-> tag, id |-> id, name |-> name, uuids |-> uuids]

\* TreeNode::render_files and TreeNode::render_inner
RECURSIVE render_files(_)
RECURSIVE render_inner(_, _)
RECURSIVE render_each(_, _)
render_each(files, names) ==
    IF names = <<>> THEN <<>>
    ELSE render_inner(files[Head(names)], Head(names)) \o render_each(files, Tail(names))

\* an order that puts the directories first
FilesOrderDirsFirst(files) ==
    SortedNames({n \in DOMAIN files : files[n].kind = "Directory"})
        \o SortedNames({n \in DOMAIN files : files[n].kind = "File"})

\* the iteration order of `for (path, node) in files`
FilesOrder(files) == SortedNames(DOMAIN files)

render_files(files) ==
    <<Tok("<ul>", 0, "", <<>>)>> \o render_each(files, FilesOrder(files))
        \o <<Tok("</ul>", 0, "", <<>>)>>

render_inner(self, name) ==
    IF self.kind = "File"
    THEN <<Tok("li.mdbook-files-button", self.uuid, name, <<>>)>>
    ELSE <<Tok("li.mdbook-files-folder", 0, name, <<>>)>> \o render_files(self.files)
             \o <<Tok("</li>", 0, "", <<>>)>>

\* Result: Ok(val), Err(msg); Abort(msg) is a panic instead of a return
Ok(val) == [ok |-> TRUE, panic |-> FALSE, val |-> val, err |-> ""]
Err(msg) == [ok |-> FALSE, panic |-> FALSE, val |-> <<>>, err |-> msg]
Abort(msg) == [ok |-> FALSE, panic |-> TRUE, val |-> <<>>, err |-> msg]

\* TreeNode::render
render(self) ==
    IF self.kind = "File" THEN Err("root node cannot be file")
    ELSE Ok(render_files(self.files))

----------------------------------------------------------------------------
(* The file system the walk reads, and the plugin's Config *)

\* Config::prefix
Prefix == <<"book">>

FsDirs ==
    { <<"book">>,
      <<"book", "x">>, <<"book", "x", "b">>,
      <<"book", "y">>, <<"book", "y", "s">>,
      <<"book", "w">>, <<"book", "w", "a">>, <<"book", "w", "a-b">> }

FsFiles ==
    { <<"book", "x", "a.rs">>, <<"book", "x", "b", "c.rs">>, <<"book", "x", "b", "d.txt">>,
      <<"book", "y", "s", ".h">>, <<"book", "y", "s", "e.rs">>,
      <<"book", "w", "a.rs">>, <<"book", "w", "a", "y.rs">>, <<"book", "w", "a-b", "x.rs">>,
      <<"book", "f.rs">> }

\* the files std::fs::read_to_string fails on (not valid UTF-8)
Unreadable == { <<"book", "y", "s", ".h">> }

----------------------------------------------------------------------------
(* The descriptor: the body of a `files` block, and struct Files *)

\* The text of a block body: the keys it sets (a set of at most one value
\* for each key), and whether some line of it is not TOML.  The keys of
\* Files left out (the git and .ignore switches, follow_links,
\* same_file_system, max_filesize, types, ignore_case_insensitive) switch
\* filters for which the file system below holds nothing to filter.
BodyText(path, ignore, default_file, hidden, max_depth, height, malformed) ==
    [path |-> path, ignore |-> ignore, default_file |-> default_file,
     hidden |-> hidden, max_depth |-> max_depth, height |-> height,
     malformed |-> malformed]

NoText == BodyText({}, {}, {}, {}, {}, {}, FALSE)

The(S) == CHOOSE x \in S : TRUE

\* toml::from_str::<Files>: `path` is required, every other field has
\* #[serde(default)]; an Option is the set of at most one value.
FromToml(code) ==
    IF code.malformed THEN Err("TOML parse error")
    ELSE IF code.path = {} THEN Err("missing field path")
    ELSE Ok([path         |-> The(code.path),
             ignore       |-> IF code.ignore = {} THEN <<>> ELSE The(code.ignore),
             default_file |-> code.default_file,
             hidden       |-> IF code.hidden = {} THEN FALSE ELSE The(code.hidden),
             max_depth    |-> code.max_depth,
             height       |-> code.height])

\* Utf8Path::join with a relative path
Join(p, q) == p \o q

\* Instance::parent
parent(self) == Join(Prefix, self.data.path)

----------------------------------------------------------------------------
(* The walk: OverrideBuilder and WalkBuilder as Instance::files sets them up *)

\* The override globs that occur: whether the glob compiles, whether it
\* starts with '!', and the bytes a matching file name ends with.
GlobTable ==
    [g \in {"*.rs", "!*.rs", "*.zz", "["} |->
        CASE g = "*.rs"  -> [valid |-> TRUE,  negated |-> FALSE, suffix |-> <<46, 114, 115>>]
          [] g = "!*.rs" -> [valid |-> TRUE,  negated |-> TRUE,  suffix |-> <<46, 114, 115>>]
          [] g = "*.zz"  -> [valid |-> TRUE,  negated |-> FALSE, suffix |-> <<46, 122, 122>>]
          [] g = "["     -> [valid |-> FALSE, negated |-> FALSE, suffix |-> <<>>]]

EndsWith(bs, suffix) ==
    Len(suffix) <= Len(bs) /\ SubSeq(bs, Len(bs) - Len(suffix) + 1, Len(bs)) = suffix

GlobMatches(g, name) == EndsWith(Bytes[name], GlobTable[g].suffix)

\* Override::matched: the last glob that matches decides, '!' ignores and
\* anything else whitelists; with a whitelist glob present a file that no
\* glob matches is ignored.
OverrideMatched(ignore, name, isDir) ==
    LET M == {i \in 1..Len(ignore) : GlobMatches(ignore[i], name)}
        W == {i \in 1..Len(ignore) : ~GlobTable[ignore[i]].negated}
    IN  IF M # {}
        THEN LET last == CHOOSE i \in M : \A j \in M : j <= i
             IN  IF GlobTable[ignore[last]].negated THEN "Ignore" ELSE "Whitelist"
        ELSE IF W # {} /\ ~isDir THEN "Ignore" ELSE "None"

IsHidden(name) == Bytes[name][1] = Dot

\* whether the walk skips the entry at p (below the root of the walk)
SkipEntry(data, p) ==
    LET name == p[Len(p)]
        m    == OverrideMatched(data.ignore, name, p \in FsDirs)
    IN  \/ m = "Ignore"
        \/ m = "None" /\ data.hidden /\ IsHidden(name)

\* The entries the walker yields from `root`: the root itself, and below it
\* what is within max_depth and neither skipped nor below a skipped directory.
Walk(data, start) ==
    { p \in FsDirs \cup FsFiles :
        /\ IsPrefix(start, p)
        /\ data.max_depth # {} => Len(p) - Len(start) <= The(data.max_depth)
        /\ \A k \in (Len(start) + 1)..Len(p) : ~SkipEntry(data, SubSeq(p, 1, k)) }

\* files without `if paths.is_empty() { bail!(..) }`
filesNoEmptyCheck(self) ==
    IF \E i \in 1..Len(self.data.ignore) : ~GlobTable[self.data.ignore[i]].valid
    THEN Err("error parsing glob")
    ELSE IF parent(self) \notin FsDirs \cup FsFiles
    THEN Err("No such file or directory")
    ELSE Ok({p \in Walk(self.data, parent(self)) : p \in FsFiles})

\* Instance::files: the set of files the walk collects (each is then given
\* its uuid), or the error that ends it
files(self) ==
    IF \E i \in 1..Len(self.data.ignore) : ~GlobTable[self.data.ignore[i]].valid
    THEN Err("error parsing glob")
    ELSE IF parent(self) \notin FsDirs \cup FsFiles
    THEN Err("No such file or directory")
    ELSE LET found == {p \in Walk(self.data, parent(self)) : p \in FsFiles}
         IN  IF found = {} THEN Err("No files matched") ELSE Ok(found)

----------------------------------------------------------------------------
(* Events (pulldown_cmark::Event) *)

Ev(type, label, n, text, html, file) ==
    [type |-> type, label |-> label, n |-> n, text |-> text, html |-> html,
     file |-> file]

\* Event::Html of the markup made of the given pieces
Html(toks) == Ev("Html", "", 0, NoText, toks, <<>>)
\* Event::Start(Tag::CodeBlock(CodeBlockKind::Fenced(label))) and its End
StartCode(label) == Ev("Start", label, 0, NoText, <<>>, <<>>)
EndCode(label) == Ev("End", label, 0, NoText, <<>>, <<>>)
\* Event::Text of a block body
Text(code) == Ev("Text", "", 0, code, <<>>, <<>>)
\* Event::Text of the contents of the file at a path
FileText(path) == Ev("Text", "", 0, NoText, <<>>, path)
\* the n-th event of a chapter that belongs to no fenced block
Para(n) == Ev("Text", "", n, NoText, <<>>, <<>>)
HardBreak == Ev("HardBreak", "", 0, NoText, <<>>, <<>>)

----------------------------------------------------------------------------
(* Instance *)

\* the loop of Instance::left: every file inserted, in the order of the map
RECURSIVE InsertAll(_, _, _, _)
InsertAll(node, order, fmap, start) ==
    IF order = <<>> \/ node.kind = "Panic" THEN node
    ELSE InsertAll(insert(node, StripPrefix(Head(order), start), fmap[Head(order)]),
                   Tail(order), fmap, start)

\* `root` of Instance::left once the loop is over, or the panic
LeftRoot(self, fmap) ==
    InsertAll(TreeNodeDefault, SortedPaths(DOMAIN fmap), fmap, parent(self))

\* Instance::left
left(self, fmap) ==
    LET r == LeftRoot(self, fmap)
    IN  IF r.kind = "Panic" THEN Abort(r.msg)
        ELSE LET list == render(r)
             IN  IF ~list.ok THEN list
                 ELSE Ok(<<Tok("div.mdbook-files-left", 0, "", <<>>)>> \o list.val
                            \o <<Tok("</div>", 0, "", <<>>)>>)

\* a pane that gets a uuid of its own
PaneFreshUuid(path, uuid) ==
    LET extension == Extension(path[Len(path)])
    IN  << Html(<<Tok("div.mdbook-file", uuid + 100, "", <<>>)>>),
           StartCode(extension), FileText(path), EndCode(extension),
           Html(<<Tok("</div>", 0, "", <<>>)>>) >>

\* the events Instance::right pushes for one file
Pane(path, uuid) ==
    LET extension == Extension(path[Len(path)])
    IN  << Html(<<Tok("div.mdbook-file", uuid, "", <<>>)>>),
           StartCode(extension), FileText(path), EndCode(extension),
           Html(<<Tok("</div>", 0, "", <<>>)>>) >>

RECURSIVE Panes(_, _)
Panes(order, fmap) ==
    IF order = <<>> THEN <<>>
    ELSE Pane(Head(order), fmap[Head(order)]) \o Panes(Tail(order), fmap)

\* Instance::right
right(self, fmap) ==
    LET order == SortedPaths(DOMAIN fmap)
    IN  IF \E i \in 1..Len(order) : order[i] \in Unreadable
        THEN Err("stream did not contain valid UTF-8")
        ELSE Ok(<<Html(<<Tok("div.mdbook-files-right", 0, "", <<>>)>>)>>
                  \o Panes(order, fmap)
                  \o <<Html(<<Tok("</div>", 0, "", <<>>)>>)>>)

\* `uuids` of Instance::events: paths.values()
Uuids(fmap) ==
    LET order == SortedPaths(DOMAIN fmap)
    IN  [i \in 1..Len(order) |-> fmap[order[i]]]

\* `visible` that takes no notice of default_file
VisibleFirst(self, fmap) ==
    IF DOMAIN fmap = {} THEN Abort("index out of bounds")
    ELSE Ok(Uuids(fmap)[1])

\* `visible` of Instance::events
Visible(self, fmap) ==
    IF self.data.default_file # {}
    THEN LET key == Join(parent(self), The(self.data.default_file))
         IN  IF key \in DOMAIN fmap THEN Ok(fmap[key])
             ELSE Abort("called Option::unwrap() on a None value")
    ELSE IF DOMAIN fmap = {} THEN Abort("index out of bounds")
    ELSE Ok(Uuids(fmap)[1])

\* the <div id="files-.."> that opens the fragment
Container(self) ==
    Html(<<Tok("div.mdbook-files", self.uuid,
               IF self.data.height = {} THEN "300px" ELSE The(self.data.height), <<>>)>>)

\* the <script> made from the template with `uuids` and `visible`
Script(fmap, v) == Html(<<Tok("script", v, "", Uuids(fmap))>>)

----------------------------------------------------------------------------
(* Book *)

Chapter(content, sub_items) ==
    [kind |-> "Chapter", content |-> content, sub_items |-> sub_items]
Separator == [kind |-> "Separator", content |-> <<>>, sub_items |-> <<>>]

\* the items below the chapter at path p (the sections, for the empty path)
RECURSIVE ItemsAt(_, _)
ItemsAt(items, p) ==
    IF p = <<>> THEN items ELSE ItemsAt(items[Head(p)].sub_items, Tail(p))

Items(p) == ItemsAt(book.sections, p)
ChapterAt(p) == Items(SubSeq(p, 1, Len(p) - 1))[p[Len(p)]]

\* Context::label
label == "files"

\* the Book that Context::map returns: every chapter's content replaced
RECURSIVE MappedItems(_, _, _)
MappedItems(items, p, m) ==
    [i \in 1..Len(items) |->
        IF items[i].kind = "Chapter"
        THEN Chapter(m[Append(p, i)], MappedItems(items[i].sub_items, Append(p, i), m))
        ELSE items[i]]

MappedBook == [sections |-> MappedItems(book.sections, <<>>, mapped)]

----------------------------------------------------------------------------
(* The books the run is given *)

Opt(S) == {{}} \cup {{x} : x \in S}

\* the block bodies that set `path` and any of the modelled keys
Descriptors ==
    { BodyText({p}, ig, df, h, md, {}, FALSE) :
        p  \in {<<"x">>, <<"y">>, <<"w">>, <<"f.rs">>, <<"z">>},
        ig \in Opt({<<"*.rs">>, <<"!*.rs">>, <<"*.zz">>, <<"[">>}),
        df \in Opt({<<"a.rs">>, <<"b", "c.rs">>, <<"missing.rs">>}),
        h  \in Opt({TRUE}),
        md \in Opt(0..MaxDepthOpt) }

\* a fenced block with the given label whose body is the given Text events
Fenced(lbl, texts) == <<StartCode(lbl)>> \o texts \o <<EndCode(lbl)>>

OnlyPath(p) == BodyText({p}, {}, {}, {}, {}, {}, FALSE)

\* the blocks the first chapter is tried with
MainBlocks ==
    { Fenced(label, <<Text(d)>>) : d \in Descriptors }
    \cup
    { <<>>,
      \* no body: the parser yields no Text event
      Fenced(label, <<>>),
      \* a body the parser yields as two Text events
      Fenced(label, << Text(OnlyPath(<<"x">>)),
                       Text(BodyText({}, {}, {<<"b", "c.rs">>}, {}, {}, {}, FALSE)) >>),
      \* not TOML, and TOML without `path`
      Fenced(label, <<Text(BodyText({<<"x">>}, {}, {}, {}, {}, {}, TRUE))>>),
      Fenced(label, <<Text(BodyText({}, {}, {}, {TRUE}, {}, {"500px"}, FALSE))>>),
      \* another language
      Fenced("rust", <<Para(9)>>) }

\* the blocks the sub-chapter is tried with
SideBlocks ==
    { Fenced("rust", <<Para(9)>>),
      Fenced(label, <<Text(BodyText({<<"y">>}, {}, {}, {TRUE}, {}, {"500px"}, FALSE))>>),
      Fenced(label, <<Text(BodyText({<<"y">>}, {}, {}, {}, {1}, {}, FALSE))>>) }

LastBlock ==
    Fenced(label, <<Text(BodyText({<<"y">>}, {}, {<<"s", "e.rs">>}, {TRUE}, {}, {}, FALSE))>>)

Books ==
    { [sections |->
         << Chapter(<<Para(1)>> \o b1 \o <<Para(2)>>,
                    << Chapter(b2 \o <<Para(3)>>, <<>>) >>),
            Separator,
            Chapter(Fenced("rust", <<Para(9)>>) \o <<Para(4)>> \o LastBlock, <<>>) >>] :
      b1 \in MainBlocks, b2 \in SideBlocks }

----------------------------------------------------------------------------
(* The run: Options::run, Context::map and what it calls *)

NoPaths == [p \in {} |-> 0]

Init ==
    /\ book \in Books
    /\ stack = <<[path |-> <<>>, i |-> 1]>>
    /\ mapped = [p \in {} |-> <<>>]
    /\ pc = "map"
    /\ chapter = <<>>
    /\ pos = 0
    /\ events = <<>>
    /\ inst = <<>>
    /\ paths = NoPaths
    /\ root = TreeNodeDefault
    /\ frag = <<>>
    /\ visible = <<>>
    /\ nextUuid = 1
    /\ error = ""
    /\ stdout = <<>>
    /\ trace = <<>>

Top == stack[Len(stack)]
Content == ChapterAt(chapter).content

\* the run ends in an Err that main returns ("err") or in a panic
Fail(r) ==
    /\ pc' = IF r.panic THEN "panic" ELSE "err"
    /\ error' = r.err

\* the step of the iterator in Context::map / map_chapter
NextItem == [stack EXCEPT ![Len(stack)].i = @ + 1]

\* Context::map_book_item on an item that is no chapter: `other => other`
MapOther ==
    /\ pc = "map"
    /\ Top.i <= Len(Items(Top.path))
    /\ Items(Top.path)[Top.i].kind # "Chapter"
    /\ stack' = NextItem
    /\ UNCHANGED <<book, mapped, pc, chapter, pos, events, inst, paths, root, frag,
                   visible, nextUuid, error, stdout, trace>>

\* Context::map_book_item on a chapter: map_chapter starts with map_markdown
\* on the chapter's content
MapChapter ==
    /\ pc = "map"
    /\ Top.i <= Len(Items(Top.path))
    /\ Items(Top.path)[Top.i].kind = "Chapter"
    /\ chapter' = Append(Top.path, Top.i)
    /\ pos' = 1
    /\ events' = <<>>
    /\ pc' = "markdown"
    /\ trace' = Append(trace, [chapter |-> Append(Top.path, Top.i), pos |-> 0])
    /\ UNCHANGED <<book, stack, mapped, inst, paths, root, frag, visible, nextUuid,
                   error, stdout>>

\* map_chapter that leaves the chapter's sub_items as they are
ParserNoneNoSubItems ==
    /\ pc = "markdown"
    /\ pos > Len(Content)
    /\ mapped' = MapPut(mapped, chapter, events)
    /\ stack' = Append(stack, [path |-> chapter, i |-> Len(Items(chapter)) + 1])
    /\ pc' = "map"
    /\ chapter' = <<>>
    /\ pos' = 0
    /\ events' = <<>>
    /\ UNCHANGED <<book, inst, paths, root, frag, visible, nextUuid, error, stdout,
                   trace>>

\* map_markdown, `None => break`: the events become the chapter's content,
\* and map_chapter goes on with the chapter's sub_items
ParserNone ==
    /\ pc = "markdown"
    /\ pos > Len(Content)
    /\ mapped' = MapPut(mapped, chapter, events)
    /\ stack' = Append(stack, [path |-> chapter, i |-> 1])
    /\ pc' = "map"
    /\ chapter' = <<>>
    /\ pos' = 0
    /\ events' = <<>>
    /\ UNCHANGED <<book, inst, paths, root, frag, visible, nextUuid, error, stdout,
                   trace>>

IsFilesStart(e) == e.type = "Start" /\ e.label = label

\* map_markdown, `Some(event) => events.push(event)`
ParserPush ==
    /\ pc = "markdown"
    /\ pos <= Len(Content)
    /\ ~IsFilesStart(Content[pos])
    /\ events' = Append(events, Content[pos])
    /\ pos' = pos + 1
    /\ UNCHANGED <<book, stack, mapped, pc, chapter, inst, paths, root, frag, visible,
                   nextUuid, error, stdout, trace>>

\* map_markdown, the arm of a fenced block labelled `files`: the next event
\* must be a Text, which map_code parses into the Instance
ParserFiles ==
    /\ pc = "markdown"
    /\ pos <= Len(Content)
    /\ IsFilesStart(Content[pos])
    /\ IF pos + 1 > Len(Content) \/ Content[pos + 1].type # "Text"
       THEN /\ Fail(Abort("internal error: entered unreachable code"))
            /\ UNCHANGED <<inst, nextUuid, pos, trace>>
       ELSE LET data == FromToml(Content[pos + 1].text)
            IN  /\ trace' = Append(trace, [chapter |-> chapter, pos |-> pos])
                /\ IF ~data.ok
                   THEN /\ Fail(data)
                        /\ UNCHANGED <<inst, nextUuid, pos>>
                   ELSE /\ inst' = <<[data |-> data.val, uuid |-> nextUuid]>>
                        /\ nextUuid' = nextUuid + 1
                        /\ pos' = pos + 2
                        /\ pc' = "files"
                        /\ UNCHANGED error
    /\ UNCHANGED <<book, stack, mapped, chapter, events, paths, root, frag, visible,
                   stdout>>

Self == inst[1]

\* the ways the walk can hand out fresh uuids to the files it finds: one
\* Uuid::new_v4 for each file, in the order the walk meets them
Allocations(found) ==
    { f \in [found -> nextUuid..(nextUuid + Cardinality(found) - 1)] :
        \A p, q \in found : p # q => f[p] # f[q] }

\* a block whose enumeration fails is skipped, and the chapter goes on
FilesSkipOnError ==
    /\ pc = "files"
    /\ LET r == files(Self)
       IN  IF ~r.ok
           THEN /\ pc' = "markdown"
                /\ pos' = pos + 1
                /\ inst' = <<>>
                /\ UNCHANGED <<paths, nextUuid, frag, error>>
           ELSE /\ paths' \in Allocations(r.val)
                /\ nextUuid' = nextUuid + Cardinality(r.val)
                /\ frag' = <<Container(Self)>>
                /\ pc' = "left"
                /\ UNCHANGED <<error, pos, inst>>
    /\ UNCHANGED <<book, stack, mapped, chapter, events, root, visible, stdout, trace>>

\* Instance::events, `let paths = self.files()?`, and the opening <div>
Files ==
    /\ pc = "files"
    /\ LET r == files(Self)
       IN  IF ~r.ok
           THEN /\ Fail(r)
                /\ UNCHANGED <<paths, nextUuid, frag>>
           ELSE /\ paths' \in Allocations(r.val)
                /\ nextUuid' = nextUuid + Cardinality(r.val)
                /\ frag' = <<Container(Self)>>
                /\ pc' = "left"
                /\ UNCHANGED error
    /\ UNCHANGED <<book, stack, mapped, chapter, pos, events, inst, root, visible,
                   stdout, trace>>

\* Instance::events, `self.left(&paths)?`
Left ==
    /\ pc = "left"
    /\ LET r == left(Self, paths)
       IN  IF ~r.ok
           THEN /\ Fail(r)
                /\ UNCHANGED <<root, frag>>
           ELSE /\ root' = LeftRoot(Self, paths)
                /\ frag' = Append(frag, Html(r.val))
                /\ pc' = "right"
                /\ UNCHANGED error
    /\ UNCHANGED <<book, stack, mapped, chapter, pos, events, inst, paths, visible,
                   nextUuid, stdout, trace>>

\* Instance::events, `self.right(&paths)?` and the closing </div>
Right ==
    /\ pc = "right"
    /\ LET r == right(Self, paths)
       IN  IF ~r.ok
           THEN /\ Fail(r)
                /\ UNCHANGED frag
           ELSE /\ frag' = frag \o r.val \o <<Html(<<Tok("</div>", 0, "", <<>>)>>)>>
                /\ pc' = "visible"
                /\ UNCHANGED error
    /\ UNCHANGED <<book, stack, mapped, chapter, pos, events, inst, paths, root,
                   visible, nextUuid, stdout, trace>>

\* Instance::events, `let visible = match &self.data.default_file ..`
DefaultVisible ==
    /\ pc = "visible"
    /\ LET r == Visible(Self, paths)
       IN  IF ~r.ok
           THEN /\ Fail(r)
                /\ UNCHANGED visible
           ELSE /\ visible' = <<r.val>>
                /\ pc' = "script"
                /\ UNCHANGED error
    /\ UNCHANGED <<book, stack, mapped, chapter, pos, events, inst, paths, root, frag,
                   nextUuid, stdout, trace>>

\* Instance::events, the script rendered from the template, and the
\* HardBreak; events returns Ok(events)
RenderScript ==
    /\ pc = "script"
    /\ frag' = frag \o <<Script(paths, visible[1]), HardBreak>>
    /\ pc' = "splice"
    /\ UNCHANGED <<book, stack, mapped, chapter, pos, events, inst, paths, root,
                   visible, nextUuid, error, stdout, trace>>

\* map_markdown, after map_code returned: the mapped events are pushed and
\* one more event is taken from the parser and dropped
Splice ==
    /\ pc = "splice"
    /\ events' = events \o frag
    /\ pos' = pos + 1
    /\ pc' = "markdown"
    /\ inst' = <<>>
    /\ paths' = NoPaths
    /\ root' = TreeNodeDefault
    /\ frag' = <<>>
    /\ visible' = <<>>
    /\ UNCHANGED <<book, stack, mapped, chapter, nextUuid, error, stdout, trace>>

\* map_chapter returns Ok(chapter): its sub_items are all mapped
ReturnChapter ==
    /\ pc = "map"
    /\ Top.i > Len(Items(Top.path))
    /\ Len(stack) > 1
    /\ stack' = [SubSeq(stack, 1, Len(stack) - 1) EXCEPT ![Len(stack) - 1].i = @ + 1]
    /\ UNCHANGED <<book, mapped, pc, chapter, pos, events, inst, paths, root, frag,
                   visible, nextUuid, error, stdout, trace>>

\* Context::map returns Ok(book): the sections are all mapped
ReturnBook ==
    /\ pc = "map"
    /\ Top.i > Len(Items(Top.path))
    /\ Len(stack) = 1
    /\ pc' = "mapped"
    /\ UNCHANGED <<book, stack, mapped, chapter, pos, events, inst, paths, root, frag,
                   visible, nextUuid, error, stdout, trace>>

\* Options::run, `serde_json::to_writer(io::stdout(), &output)?`
WriteOutput ==
    /\ pc = "mapped"
    /\ stdout' = <<MappedBook>>
    /\ pc' = "done"
    /\ UNCHANGED <<book, stack, mapped, chapter, pos, events, inst, paths, root, frag,
                   visible, nextUuid, error, trace>>

Next ==
    \/ MapOther
    \/ MapChapter
    \/ ParserNone
    \/ ParserPush
    \/ ParserFiles
    \/ Files
    \/ Left
    \/ Right
    \/ DefaultVisible
    \/ RenderScript
    \/ Splice
    \/ ReturnChapter
    \/ ReturnBook
    \/ WriteOutput

Spec == Init /\ [][Next]_vars

----------------------------------------------------------------------------
(* TreeNode::insert on its own: any paths, in any order *)

SegNames == {"b", "c.rs"}

RECURSIVE SeqsUpTo(_, _)
SeqsUpTo(S, n) ==
    IF n = 0 THEN {<<>>}
    ELSE LET shorter == SeqsUpTo(S, n - 1)
         IN  shorter \cup {Append(q, x) : q \in shorter, x \in S}

InsertPaths == SeqsUpTo(SegNames, MaxPathLen)

InitInsert ==
    /\ book = [sections |-> <<>>]
    /\ stack = <<>>
    /\ mapped = [p \in {} |-> <<>>]
    /\ pc = "insert"
    /\ chapter = <<>>
    /\ pos = 0
    /\ events = <<>>
    /\ inst = <<>>
    /\ paths = NoPaths
    /\ root = TreeNodeDefault
    /\ frag = <<>>
    /\ visible = <<>>
    /\ nextUuid = 1
    /\ error = ""
    /\ stdout = <<>>
    /\ trace = <<>>

\* one call root.insert(path, uuid) with a fresh uuid
Insert ==
    /\ pc = "insert"
    /\ nextUuid <= MaxInserts
    /\ \E path \in InsertPaths :
         LET r == insert(root, path, nextUuid)
         IN  IF r.kind = "Panic"
             THEN /\ pc' = "panic"
                  /\ error' = r.msg
                  /\ UNCHANGED root
             ELSE /\ root' = r
                  /\ UNCHANGED <<pc, error>>
    /\ nextUuid' = nextUuid + 1
    /\ UNCHANGED <<book, stack, mapped, chapter, pos, events, inst, paths, frag,
                   visible, stdout, trace>>

NextInsert == Insert

SpecInsert == InitInsert /\ [][NextInsert]_vars

----------------------------------------------------------------------------
(* What the claims are stated with *)

Range(f) == {f[x] : x \in DOMAIN f}

\* the (relative path, uuid) of every File below a node
RECURSIVE LeafPairs(_, _)
LeafPairs(node, at) ==
    IF node.kind = "File" THEN {<<at, node.uuid>>}
    ELSE UNION {LeafPairs(node.files[n], Append(at, n)) : n \in DOMAIN node.files}

\* the (relative path, uuid) of every entry of `paths`
MappingPairs == {<<StripPrefix(p, parent(Self)), paths[p]>> : p \in DOMAIN paths}

\* Instance::left has returned Ok for the block at hand
TreeBuilt == pc \in {"right", "visible", "script", "splice"}

\* every enumerated path lies below the root of the walk
BelowRoot == \A p \in DOMAIN paths : Len(p) > Len(parent(Self))

\* the tokens of the tree pane, once built: the second event of the fragment
TreePane == frag[2].html

IsLi(t) == t.tag \in {"li.mdbook-files-button", "li.mdbook-files-folder"}

\* how many <ul> are open before token i
RECURSIVE UlDepth(_, _)
UlDepth(toks, i) ==
    IF i <= 1 THEN 0
    ELSE UlDepth(toks, i - 1)
           + (IF toks[i - 1].tag = "<ul>" THEN 1
              ELSE IF toks[i - 1].tag = "</ul>" THEN -1 ELSE 0)

\* tokens i < j are entries of the same list
Siblings(toks, i, j) ==
    /\ i < j /\ IsLi(toks[i]) /\ IsLi(toks[j])
    /\ UlDepth(toks, i) = UlDepth(toks, j)
    /\ \A k \in (i + 1)..j : UlDepth(toks, k) >= UlDepth(toks, i)

\* the entries of a pane, in order, as <<tag, name>>
RECURSIVE Entries(_)
Entries(toks) ==
    IF toks = <<>> THEN <<>>
    ELSE (IF IsLi(Head(toks)) THEN <<<<Head(toks).tag, Head(toks).name>>>> ELSE <<>>)
           \o Entries(Tail(toks))

\* the tags of a pane, in order
Tags(toks) == [i \in 1..Len(toks) |-> toks[i].tag]

\* C1: whenever Instance::left has built the tree from a mapping, the
\* (relative path, uuid) pairs of the tree's leaves are exactly those of the
\* mapping, one leaf for each file, and no two leaves share a uuid; the
\* building panics only when some path is not below the root of the walk.
C1_TreeLeavesAreTheMapping ==
    /\ TreeBuilt =>
         /\ LeafPairs(root, <<>>) = MappingPairs
         /\ Cardinality(LeafPairs(root, <<>>)) = Cardinality(DOMAIN paths)
         /\ \A a, b \in LeafPairs(root, <<>>) : a[2] = b[2] => a = b
    /\ (pc = "panic" /\ error \in {"entry exists", "index out of bounds"}) => ~BelowRoot

C1_Witness ==
    /\ pc = "right"
    /\ Cardinality(DOMAIN paths) = 3
    /\ "b" \in DOMAIN root.files
    /\ root.files["b"].kind = "Directory"
    /\ Cardinality(DOMAIN root.files["b"].files) = 2

\* C9: at every level of the rendered tree the entries stand in strictly
\* increasing byte order of their names, whether file or directory; a file
\* entry shows the last component of its path; and for the files a.rs,
\* b/c.rs, b/d.txt the list is a.rs, b/ [c.rs, d.txt].
C9_RenderedInNameOrder ==
    TreeBuilt =>
      /\ \A i, j \in 1..Len(TreePane) :
           Siblings(TreePane, i, j) => StrLess(TreePane[i].name, TreePane[j].name)
      /\ \A i \in 1..Len(TreePane) :
           TreePane[i].tag = "li.mdbook-files-button" =>
             \E p \in DOMAIN paths :
               paths[p] = TreePane[i].id /\ TreePane[i].name = p[Len(p)]
      /\ {q[1] : q \in MappingPairs} = {<<"a.rs">>, <<"b", "c.rs">>, <<"b", "d.txt">>} =>
           /\ Entries(TreePane) =
                << <<"li.mdbook-files-button", "a.rs">>, <<"li.mdbook-files-folder", "b">>,
                   <<"li.mdbook-files-button", "c.rs">>, <<"li.mdbook-files-button", "d.txt">> >>
           /\ Tags(TreePane) =
                << "div.mdbook-files-left", "<ul>", "li.mdbook-files-button",
                   "li.mdbook-files-folder", "<ul>", "li.mdbook-files-button",
                   "li.mdbook-files-button", "</ul>", "</li>", "</ul>", "</div>" >>

C9_Witness ==
    /\ pc = "right"
    /\ {q[1] : q \in MappingPairs} = {<<"a.rs">>, <<"b", "c.rs">>, <<"b", "d.txt">>}
    /\ Len(Entries(TreePane)) = 4

\* a second witness of interleaving: directories a and a-b before the file a.rs
C9_WitnessDirsBeforeFile ==
    /\ pc = "right"
    /\ Entries(TreePane)[1] = <<"li.mdbook-files-folder", "a">>
    /\ Entries(TreePane)[Len(Entries(TreePane))] = <<"li.mdbook-files-button", "a.rs">>

\* the indexes of the fragment's events that open a content pane
PaneAt == {i \in 1..Len(frag) :
             frag[i].type = "Html" /\ frag[i].html[1].tag = "div.mdbook-file"}

\* the tree pane's file entries
Buttons == {i \in 1..Len(TreePane) : TreePane[i].tag = "li.mdbook-files-button"}

\* the <script> of a finished fragment
ScriptTok == frag[Len(frag) - 1].html[1]

\* C7: in a finished fragment every enumerated file has exactly one tree
\* leaf and exactly one content pane, both carrying the uuid the enumeration
\* gave the file, the pane holding that file's contents; and the leaves, the
\* panes and the script's list carry the same uuids, none more than once.
C7_OneIdentifierThreeArtifacts ==
    pc = "splice" =>
      /\ \A p \in DOMAIN paths :
           /\ Cardinality({i \in Buttons : TreePane[i].id = paths[p]}) = 1
           /\ \A i \in Buttons : TreePane[i].id = paths[p] => TreePane[i].name = p[Len(p)]
           /\ Cardinality({i \in PaneAt : frag[i].html[1].id = paths[p]}) = 1
           /\ \A i \in PaneAt : frag[i].html[1].id = paths[p] => frag[i + 2].file = p
      /\ Cardinality(Buttons) = Cardinality(DOMAIN paths)
      /\ Cardinality(PaneAt) = Cardinality(DOMAIN paths)
      /\ Len(ScriptTok.uuids) = Cardinality(DOMAIN paths)
      /\ {TreePane[i].id : i \in Buttons} = Range(paths)
      /\ {frag[i].html[1].id : i \in PaneAt} = Range(paths)
      /\ Range(ScriptTok.uuids) = Range(paths)

C7_Witness ==
    /\ pc = "splice"
    /\ Cardinality(DOMAIN paths) = 3
    /\ ScriptTok.tag = "script"
    /\ Uuids(paths)[1] > Uuids(paths)[2]

\* the first key of `paths` in the order of Utf8PathBuf
FirstPath == CHOOSE p \in DOMAIN paths : \A q \in DOMAIN paths \ {p} : PathLess(p, q)

DefaultKey == Join(parent(Self), The(Self.data.default_file))

\* C5: a block that gets as far as its script hands the script one visible
\* uuid, a member of the list it hands over with it: the uuid of the file at
\* the root joined with default_file when default_file is set, which then is
\* an enumerated file, and otherwise the uuid of the first enumerated path in
\* the order of paths (component by component, each by its bytes).
C5_OneDefaultVisible ==
    /\ pc \in {"script", "splice"} =>
         /\ Len(visible) = 1
         /\ visible[1] \in Range(Uuids(paths))
         /\ Self.data.default_file # {} =>
              DefaultKey \in DOMAIN paths /\ visible[1] = paths[DefaultKey]
         /\ Self.data.default_file = {} => visible[1] = paths[FirstPath]
    /\ pc = "splice" =>
         /\ ScriptTok.id = visible[1]
         /\ \E i \in 1..Len(ScriptTok.uuids) : ScriptTok.uuids[i] = ScriptTok.id

\* default_file = b/c.rs, which is not the first path, under an allocation
\* that did not follow the order of the paths
C5_Witness ==
    /\ pc = "splice"
    /\ Self.data.default_file = {<<"b", "c.rs">>}
    /\ visible[1] # paths[FirstPath]
    /\ visible[1] = Self.uuid + 1

\* no default_file, and the first path in the order of paths (a/y.rs) is
\* not the first in the order of the strings (a-b/x.rs)
C5_WitnessFirst ==
    /\ pc = "splice"
    /\ Self.data.default_file = {}
    /\ FirstPath = <<"book", "w", "a", "y.rs">>
    /\ visible[1] = paths[FirstPath]

\* the walk of the block at hand goes through and collects no file
ZeroFiles ==
    /\ inst # <<>>
    /\ \A i \in 1..Len(Self.data.ignore) : GlobTable[Self.data.ignore[i]].valid
    /\ parent(Self) \in FsDirs \cup FsFiles
    /\ {p \in Walk(Self.data, parent(Self)) : p \in FsFiles} = {}

\* C4: a block whose walk collects no file ends in the error "No files
\* matched" with nothing of its fragment built and nothing written; and a
\* block that goes on to build its fragment has at least one file.
C4_NoFilesIsAnError ==
    /\ ZeroFiles =>
         /\ pc \in {"files", "err"}
         /\ pc = "err" => error = "No files matched"
         /\ frag = <<>> /\ paths = NoPaths
         /\ stdout = <<>>
    /\ pc \in {"left", "right", "visible", "script", "splice"} => DOMAIN paths # {}

\* max_depth = 0 on a root that holds only a subdirectory
C4_Witness ==
    /\ pc = "err" /\ error = "No files matched"
    /\ Self.data.path = <<"y">> /\ Self.data.max_depth = {0}
    /\ Self.data.ignore = <<>>

\* overrides that match nothing
C4_WitnessOverrides ==
    /\ pc = "err" /\ error = "No files matched"
    /\ Self.data.path = <<"x">> /\ Self.data.max_depth = {}
    /\ Self.data.ignore = <<"*.zz">>

\* default_file is set and names none of the enumerated files
DefaultMissing ==
    /\ inst # <<>>
    /\ DOMAIN paths # {}
    /\ Self.data.default_file # {}
    /\ DefaultKey \notin DOMAIN paths
    \* and nothing else is wrong with the block
    /\ BelowRoot
    /\ DOMAIN paths \cap Unreadable = {}

\* C2: a block whose default_file is not among the enumerated files never
\* gets to its script, and when it has failed it has failed with an error
\* (not a panic) and with nothing of its fragment built: no opening <div>,
\* no tree pane, no content panes.
C2_MissingDefaultFailsBeforeMarkup ==
    DefaultMissing =>
      /\ pc \notin {"script", "splice"}
      /\ pc \in {"err", "panic"} => pc = "err" /\ frag = <<>>

\* what stands at path q of a tree: "Directory", "File", or "None"
RECURSIVE KindAt(_, _)
KindAt(node, q) ==
    IF q = <<>> THEN node.kind
    ELSE IF node.kind = "Directory" /\ Head(q) \in DOMAIN node.files
    THEN KindAt(node.files[Head(q)], Tail(q))
    ELSE "None"

\* C3: no call of TreeNode::insert replaces a node by one of the other kind:
\* what was a Directory stays a Directory, what was a File stays a File
\* (the call that would change it panics instead).
C3_InsertNeverReplaces ==
    [][\A q \in InsertPaths :
         KindAt(root, q) # "None" => KindAt(root', q) = KindAt(root, q)]_vars

\* the positions of a chapter's content where a `files` block starts, as
\* trace entries, from position i on
RECURSIVE BlockCalls(_, _, _)
BlockCalls(content, c, i) ==
    IF i > Len(content) THEN <<>>
    ELSE (IF IsFilesStart(content[i]) THEN <<[chapter |-> c, pos |-> i]>> ELSE <<>>)
           \o BlockCalls(content, c, i + 1)

\* the chapters and their `files` blocks in document order: a chapter, the
\* blocks of its content, then its sub-items, depth first
RECURSIVE DocOrder(_, _, _)
DocOrder(items, p, i) ==
    IF i > Len(items) THEN <<>>
    ELSE (IF items[i].kind = "Chapter"
          THEN <<[chapter |-> Append(p, i), pos |-> 0]>>
                 \o BlockCalls(items[i].content, Append(p, i), 1)
                 \o DocOrder(items[i].sub_items, Append(p, i), 1)
          ELSE <<>>)
           \o DocOrder(items, p, i + 1)

BookOrder == DocOrder(book.sections, <<>>, 1)

ChapterPaths == {t.chapter : t \in Range(BookOrder)}

BlockOk(code) ==
    LET d == FromToml(code)
    IN  /\ d.ok
        /\ LET self == [data |-> d.val, uuid |-> 0]
               f    == files(self)
           IN  /\ f.ok
               /\ LET fmap == [p \in f.val |-> 0]
                  IN  /\ left(self, fmap).ok
                      /\ right(self, fmap).ok
                      /\ Visible(self, fmap).ok

\* some `files` block of some chapter hits a fatal condition
SomeFatal ==
    \E c \in ChapterPaths :
      LET content == ChapterAt(c).content
      IN  \E i \in 1..Len(content) :
            /\ IsFilesStart(content[i])
            /\ \/ i + 1 > Len(content)
               \/ content[i + 1].type # "Text"
               \/ ~BlockOk(content[i + 1].text)

Failed == {"err", "panic"}

\* C6: when some `files` block of the book hits a fatal condition, map never
\* returns a book and nothing is ever written;
\* a failed run has written nothing and takes no further step; and what is
\* written is the book with every chapter mapped.
C6_FailureWritesNothing ==
    /\ [](SomeFatal =>
            /\ stdout = <<>>
            /\ pc \notin {"mapped", "done"})
    /\ [](pc \in Failed => stdout = <<>>)
    /\ [][pc \notin Failed]_vars
    /\ [](stdout # <<>> => DOMAIN mapped = ChapterPaths /\ stdout = <<MappedBook>>)

\* a block of the sub-chapter fails after the first chapter's content was
\* mapped with a fragment in it
C6_Witness ==
    /\ pc = "err"
    /\ chapter = <<1, 1>>
    /\ DOMAIN mapped = {<<1>>}
    /\ \E i \in 1..Len(mapped[<<1>>]) : mapped[<<1>>][i].type = "HardBreak"
    /\ stdout = <<>>

\* the events of a chapter that lie outside its `files` blocks
RECURSIVE OutsideBlocks(_, _)
OutsideBlocks(content, inBlock) ==
    IF content = <<>> THEN <<>>
    ELSE LET e == Head(content)
         IN  IF inBlock
             THEN OutsideBlocks(Tail(content), ~(e.type = "End" /\ e.label = label))
             ELSE IF IsFilesStart(e) THEN OutsideBlocks(Tail(content), TRUE)
             ELSE <<e>> \o OutsideBlocks(Tail(content), FALSE)

IsContainer(e) == e.type = "Html" /\ e.html[1].tag = "div.mdbook-files"

\* mapped events without the fragments: each runs from its opening <div> to
\* its HardBreak
RECURSIVE WithoutFragments(_, _)
WithoutFragments(out, inFrag) ==
    IF out = <<>> THEN <<>>
    ELSE LET e == Head(out)
         IN  IF inFrag THEN WithoutFragments(Tail(out), e.type # "HardBreak")
             ELSE IF IsContainer(e) THEN WithoutFragments(Tail(out), TRUE)
             ELSE <<e>> \o WithoutFragments(Tail(out), FALSE)

\* C10: no `files` block makes map_markdown panic for the shape of its body;
\* and in every mapped chapter there is one fragment for each `files` block,
\* and what is left without the fragments is what the chapter held outside
\* its `files` blocks, in the same order.
C10_EveryFilesBlockSpliced ==
    /\ pc = "panic" => error # "internal error: entered unreachable code"
    /\ \A c \in DOMAIN mapped :
         /\ WithoutFragments(mapped[c], FALSE) = OutsideBlocks(ChapterAt(c).content, FALSE)
         /\ Cardinality({i \in 1..Len(mapped[c]) : IsContainer(mapped[c][i])})
              = Len(BlockCalls(ChapterAt(c).content, c, 1))

====
